---- MODULE Spec2Model ----
(***************************************************************************)
(* Model of the "perf" GStreamer element (plugins/gstperf.c): the byte and *)
(* frame counters, the bitrate sampler gst_perf_update_bps run by the      *)
(* GLib timeout and by the data path, the averaging functions, the CPU     *)
(* load estimator and the element's start/stop life cycle.                 *)
(***************************************************************************)
EXTENDS Integers, Sequences, FiniteSets, TLC

(***************************************************************************)
(* Bounds of the model.                                                    *)
(***************************************************************************)
MaxBuffers == 2            \* buffers pushed through transform_ip, in total
MaxTicks == 1              \* timer callbacks dispatched, in total
MaxSessions == 2           \* start/stop cycles
MaxTime == 1               \* last clock value, in clock units
ClockUnitsPerSecond == 1   \* resolution of the modelled clock
MaxCount == 4              \* largest count fed to the averaging functions
MaxWindow == 2             \* largest bitrate-window-size set
MaxSets == 1               \* writes of a property, in total

(***************************************************************************)
(* Unsigned machine integers.  A w-bit unsigned value is a little-endian   *)
(* sequence of 16-bit limbs (2 limbs: guint/guint32, 4 limbs: guint64 and  *)
(* gsize), so that sums and products wrap at 2^w exactly as in C.          *)
(***************************************************************************)
LimbBase == 256 * 256

Limbs(n, len) ==
  [i \in 1..len |-> IF i = 1 THEN n % LimbBase
                    ELSE IF i = 2 THEN n \div LimbBase ELSE 0]

U32(n) == Limbs(n, 2)
U64(n) == Limbs(n, 4)

\* value of a limb sequence (defined while it is below 2^31)
RECURSIVE LimbVal(_)
LimbVal(x) ==
  IF Len(x) = 0 THEN 0
  ELSE IF \A i \in 2..Len(x) : x[i] = 0 THEN x[1]
  ELSE x[1] + LimbBase * LimbVal(Tail(x))

RECURSIVE AddCarry(_, _, _)
AddCarry(a, b, c) ==
  IF Len(a) = 0 THEN <<>>
  ELSE LET s == a[1] + b[1] + c
       IN <<s % LimbBase>> \o AddCarry(Tail(a), Tail(b), s \div LimbBase)

\* a + b modulo 2^(16 * Len(a))
LimbAdd(a, b) == AddCarry(a, b, 0)

RECURSIVE SubBorrow(_, _, _)
SubBorrow(a, b, c) ==
  IF Len(a) = 0 THEN <<>>
  ELSE LET s == a[1] - b[1] - c
       IN IF s < 0 THEN <<s + LimbBase>> \o SubBorrow(Tail(a), Tail(b), 1)
          ELSE <<s>> \o SubBorrow(Tail(a), Tail(b), 0)

\* a - b modulo 2^(16 * Len(a))
LimbSub(a, b) == SubBorrow(a, b, 0)

RECURSIVE MulCarry(_, _, _)
MulCarry(a, k, c) ==
  IF Len(a) = 0 THEN <<>>
  ELSE LET s == a[1] * k + c
       IN <<s % LimbBase>> \o MulCarry(Tail(a), k, s \div LimbBase)

\* a * k modulo 2^(16 * Len(a)), for a small factor k
LimbMul(a, k) == MulCarry(a, k, 0)

\* conversion to a narrower or wider unsigned type
LimbCast(x, len) ==
  [i \in 1..len |-> IF i <= Len(x) THEN x[i] ELSE 0]

LimbIsZero(x) == \A i \in 1..Len(x) : x[i] = 0

(***************************************************************************)
(* gdouble.  A double is modelled by the exact rational n/d in lowest      *)
(* terms (rounding error is not modelled); d = 0 stands for the IEEE       *)
(* special values: 1/0 is +inf, -1/0 is -inf and 0/0 is NaN.               *)
(***************************************************************************)
Abs(n) == IF n < 0 THEN -n ELSE n
Sgn(n) == IF n < 0 THEN -1 ELSE IF n = 0 THEN 0 ELSE 1

RECURSIVE GCD(_, _)
GCD(a, b) == IF b = 0 THEN a ELSE GCD(b, a % b)

DNorm(n, d) ==
  IF d = 0 THEN [n |-> Sgn(n), d |-> 0]
  ELSE LET g == GCD(Abs(n), Abs(d))
       IN [n |-> Sgn(n) * Sgn(d) * (Abs(n) \div g), d |-> Abs(d) \div g]

D(n) == [n |-> n, d |-> 1]
DNaN == [n |-> 0, d |-> 0]
DIsFinite(a) == a.d # 0

DNeg(a) == [n |-> -a.n, d |-> a.d]
DAdd(a, b) ==
  IF a.d = 0 /\ b.d = 0 THEN (IF a.n = b.n THEN a ELSE DNaN)
  ELSE DNorm(a.n * b.d + b.n * a.d, a.d * b.d)
DSub(a, b) == DAdd(a, DNeg(b))
DMul(a, b) == DNorm(a.n * b.n, a.d * b.d)
DRecip(b) ==
  IF b.n = 0 THEN (IF b.d = 0 THEN DNaN ELSE [n |-> 1, d |-> 0])
  ELSE DNorm(Sgn(b.n) * b.d, Abs(b.n))
DDiv(a, b) == DMul(a, DRecip(b))

(***************************************************************************)
(* State.                                                                  *)
(***************************************************************************)
VARIABLES
  perf,       \* the fields of struct _GstPerf, mutexes included
  heap,       \* the blocks handed out by g_malloc0: id -> [live, mem]
  pc,         \* where each thread stands
  ubps,       \* the locals of gst_perf_update_bps, per calling thread
  tip,        \* the locals of gst_perf_transform_ip (streaming thread)
  running,    \* the base class has called start and not yet stop
  sources,    \* the ids of the timeout sources attached to the main context
  now,        \* gst_util_get_timestamp (), in clock units
  os_cpu,     \* the cumulative counters of /proc/stat
  on_stats,   \* the last "on-stats" emission and the number of emissions
  cpu_call,   \* arguments and result of the last gst_perf_cpu_get_load
  avg_call,   \* arguments and result of the last averaging call
  budget,     \* buffers, timer dispatches and sessions used so far
  hist        \* history: what each completed sampler invocation did,
              \* and the bytes added and drained, since the last clear

vars == <<perf, heap, pc, ubps, tip, running, sources, now, os_cpu,
          on_stats, cpu_call, avg_call, budget, hist>>

(***************************************************************************)
(* Constants of the source.                                                *)
(***************************************************************************)
DEFAULT_BITRATE_WINDOW_SIZE == 0
DEFAULT_BITRATE_INTERVAL == 1000
GST_PERF_BITS_PER_BYTE == 8
GST_PERF_MS_PER_S == 1000
DEFAULT_PRINT_CPU_LOAD == FALSE
DEFAULT_GPU_STATS_ENABLED == FALSE
\* GST_CLOCK_TIME_NONE is (GstClockTime) -1, that is 2^64 - 1
GST_CLOCK_TIME_NONE == 0 - 1
GST_SECOND == ClockUnitsPerSecond
\* the null pointer (blocks of the heap are numbered from 1) and the
\* unsigned image of -1
NULL == 0
U32_MINUS_ONE == <<LimbBase - 1, LimbBase - 1>>

Threads == {"stream", "timer"}
NoThread == "none"

(***************************************************************************)
(* The averaging functions.                                                *)
(***************************************************************************)
\* a plausible slip: no guard on a count of zero, division by the count
\* of samples before the new one
gst_perf_update_average_mut(count, current, old) ==
  DDiv(DAdd(DMul(D(count), old), current), D(count + 1))

gst_perf_update_average(count, current, old) ==
  IF count # 0
  THEN DDiv(DAdd(DMul(D(count - 1), old), current), D(count))
  ELSE D(0)

gst_perf_update_moving_average(window_size, old_average, new_sample, old_sample) ==
  IF window_size # 0
  THEN DDiv(DAdd(DSub(DMul(old_average, D(window_size)), old_sample),
                 new_sample),
            D(window_size))
  ELSE D(0)

(***************************************************************************)
(* gst_perf_reset, gst_perf_clear and the state gst_perf_init leaves.      *)
(***************************************************************************)
\* a plausible slip: a reset that leaves the frame counter
gst_perf_reset_mut(p) == p

gst_perf_reset(p) == [p EXCEPT !.frame_count = 0]

\* the seven fields of perf->gpu_stats, in the order of the struct, after
\* memset (&perf->gpu_stats, 0, ...)
NoGpuStats == [i \in 1..7 |-> 0]

gst_perf_clear(p) ==
  [gst_perf_reset(p) EXCEPT
     !.fps = D(0),
     !.frame_count_total = 0,
     !.mean_bps = D(0),
     !.byte_count_total = 0,
     !.byte_count = U64(0),
     !.prev_timestamp = GST_CLOCK_TIME_NONE,
     !.prev_cpu_total = U32(0),
     !.prev_cpu_idle = U32(0),
     !.gpu_stats = NoGpuStats]

\* the instance memory is zero-filled before gst_perf_init runs
gst_perf_init ==
  gst_perf_clear(
    [prev_timestamp |-> 0, fps |-> D(0), frame_count |-> 0,
     frame_count_total |-> 0, bps |-> D(0), mean_bps |-> D(0),
     bps_window_buffer |-> NULL,
     bps_window_size |-> DEFAULT_BITRATE_WINDOW_SIZE,
     bps_window_buffer_current |-> 0,
     byte_count |-> U64(0), byte_count_total |-> 0,
     bps_interval |-> DEFAULT_BITRATE_INTERVAL,
     bps_running_interval |-> DEFAULT_BITRATE_INTERVAL,
     byte_count_mutex |-> NoThread, bps_mutex |-> NoThread,
     mean_bps_mutex |-> NoThread, object_lock |-> NoThread,
     bps_source_id |-> 0,
     prev_cpu_total |-> U32(0), prev_cpu_idle |-> U32(0),
     gpu_stats |-> NoGpuStats,
     print_cpu_load |-> DEFAULT_PRINT_CPU_LOAD,
     gpu_stats_enabled |-> DEFAULT_GPU_STATS_ENABLED])

(***************************************************************************)
(* The CPU load estimator.                                                 *)
(***************************************************************************)
\* bit i (0 = least significant) of a limb sequence
LimbBit(x, i) == (x[(i \div 16) + 1] \div (2 ^ (i % 16))) % 2

\* schoolbook binary division of the guint32 a by the integer b, from bit i
\* down, with remainder r and quotient q so far (b below 2^30)
RECURSIVE U32DivFrom(_, _, _, _, _)
U32DivFrom(a, b, i, r, q) ==
  IF i < 0 THEN q
  ELSE LET r1 == 2 * r + LimbBit(a, i)
           k == (i \div 16) + 1
       IN IF r1 >= b
          THEN U32DivFrom(a, b, i - 1, r1 - b,
                          [q EXCEPT ![k] = @ + 2 ^ (i % 16)])
          ELSE U32DivFrom(a, b, i - 1, r1, q)

\* guint32 quotient a / b (b # 0)
U32Div(a, b) == U32DivFrom(a, LimbVal(b), 31, 0, U32(0))

\* [perf |-> the element afterwards, ret |-> the guint32 returned]
gst_perf_compute_cpu(p, current_idle, current_total) ==
  LET idle == LimbSub(current_idle, p.prev_cpu_idle)
      total == LimbSub(current_total, p.prev_cpu_total)
      q == [p EXCEPT !.prev_cpu_total = current_total,
                     !.prev_cpu_idle = current_idle]
      busy == LimbSub(total, idle)
  IN IF LimbIsZero(total)
     THEN [perf |-> q, ret |-> U32(0)]
     ELSE [perf |-> q,
           ret |-> U32Div(LimbAdd(U32Div(LimbMul(busy, 1000), total),
                                  U32(5)),
                          U32(10))]

\* what the scan of /proc/stat yields
Reading(idle, total) ==
  [ok |-> TRUE, idle |-> U32(idle), total |-> U32(total)]
FailedRead == [ok |-> FALSE, idle |-> U32(0), total |-> U32(0)]

\* a plausible slip: without the default of line 537 a failed read leaves
\* the caller's initial 0 in *cpu_load
gst_perf_cpu_get_load_mut(p, reading) ==
  IF ~reading.ok
  THEN [perf |-> p, ret |-> FALSE, cpu_load |-> U32(0)]
  ELSE LET r == gst_perf_compute_cpu(p, reading.idle, reading.total)
       IN [perf |-> r.perf, ret |-> TRUE, cpu_load |-> r.ret]

\* the Linux build: reading.ok is FALSE when /proc/stat cannot be opened
\* or has no "cpu" line, else reading holds the idle and total ticks read
\* [perf, ret |-> TRUE/FALSE, cpu_load |-> the value left in *cpu_load]
gst_perf_cpu_get_load(p, reading) ==
  IF ~reading.ok
  THEN [perf |-> p, ret |-> FALSE, cpu_load |-> U32_MINUS_ONE]
  ELSE LET r == gst_perf_compute_cpu(p, reading.idle, reading.total)
       IN [perf |-> r.perf, ret |-> TRUE, cpu_load |-> r.ret]

(***************************************************************************)
(* The GPU query.                                                          *)
(***************************************************************************)
\* what g_spawn_command_line_sync leaves: the command could not be run or
\* exited with an error, or it printed comma-separated numbers (atol of
\* each token; the values of the model fit every field they are cast to)
GpuFailed == [ok |-> FALSE, tokens |-> <<>>]
GpuOutput(tokens) == [ok |-> TRUE, tokens |-> tokens]

\* token i (from 0) goes to field i of gpu_stats, tokens past the seventh
\* are dropped, fields without a token keep what they held
\* [perf |-> the element afterwards, ret |-> the gboolean returned]
gst_perf_get_gpu_stats(p, output) ==
  IF output.ok
  THEN [perf |-> [p EXCEPT !.gpu_stats =
                    [i \in 1..7 |-> IF i <= Len(output.tokens)
                                    THEN output.tokens[i] ELSE @[i]]],
        ret |-> TRUE]
  ELSE [perf |-> p, ret |-> FALSE]

(***************************************************************************)
(* Initial state: the element after gst_perf_init, nothing started.        *)
(***************************************************************************)
NoUbps ==
  [byte_count |-> U32(0), mean_bps |-> D(0), bps |-> D(0),
   interval |-> 0, count |-> 0, window_size |-> 0,
   buffer_current_idx |-> 0, old_sample |-> D(0), total |-> 0,
   counter |-> U64(0)]

NoTip ==
  [size |-> U64(0), time |-> 0, prev |-> 0, diff |-> 0, frames |-> 0,
   fps |-> D(0), bps |-> D(0), mean_bps |-> D(0), cpu_load |-> U32(0),
   print_cpu_load |-> FALSE]

NoStats ==
  [n |-> 0, time |-> 0, prev |-> 0, diff |-> 0, frames |-> 0,
   fps |-> D(0), mean_fps |-> D(0), bps |-> D(0), mean_bps |-> D(0),
   info_bps |-> D(0), info_mean_bps |-> D(0), cpu_load |-> U32(0),
   cpu_ok |-> FALSE, gpu |-> NoGpuStats, gpu_enabled |-> FALSE,
   gpu_ok |-> FALSE]

NoCpuCall ==
  [called |-> FALSE, seen |-> FALSE, first |-> FALSE, ret |-> FALSE,
   prev_idle |-> U32(0), prev_total |-> U32(0),
   idle |-> U32(0), total |-> U32(0), cpu_load |-> U32(0)]

NoAvgCall ==
  [fn |-> "none", count |-> 0, old |-> D(0), new |-> D(0),
   evicted |-> D(0), ret |-> D(0)]

\* samples: one record per completed sampler invocation; added, drained:
\* the bytes added to and drained from byte_count; window, interval: the
\* properties as start found them; fresh: no invocation was in flight
\* when the session started; clean: fresh, and no two invocations have
\* overlapped; faults: the kinds of invalid memory use so far (kept across
\* sessions); buffers, returned: the buffers that entered and that left
\* gst_perf_transform_ip; reports: the reports of the session; trigger,
\* prev_trigger: the buffers (counted from 1) that caused the last report
\* and the one before, 0 for none
NoHist ==
  [samples |-> <<>>, added |-> U64(0), drained |-> U64(0),
   window |-> 0, interval |-> 0, fresh |-> TRUE, clean |-> TRUE,
   faults |-> {}, buffers |-> 0, returned |-> 0, reports |-> 0,
   trigger |-> 0, prev_trigger |-> 0]

Init ==
  /\ perf = gst_perf_init
  /\ heap = <<>>
  /\ pc = [stream |-> "idle", timer |-> "idle", app |-> "idle"]
  /\ ubps = [t \in Threads |-> NoUbps]
  /\ tip = NoTip
  /\ running = FALSE
  /\ sources = {}
  /\ now = 0
  /\ os_cpu = Reading(0, 0)
  /\ on_stats = NoStats
  /\ cpu_call = NoCpuCall
  /\ avg_call = NoAvgCall
  /\ budget = [buffers |-> 0, ticks |-> 0, sessions |-> 0, sets |-> 0]
  /\ hist = NoHist

(***************************************************************************)
(* SpecAvg: the two averaging functions applied to every argument of a     *)
(* bounded set.                                                            *)
(***************************************************************************)
AvgSamples == {D(0), D(1), D(10), D(13), DNorm(1, 2)}

CallUpdateAverage ==
  /\ \E count \in 0..MaxCount, current \in AvgSamples, old \in AvgSamples :
       avg_call' = [fn |-> "average", count |-> count, old |-> old,
                    new |-> current, evicted |-> D(0),
                    ret |-> gst_perf_update_average(count, current, old)]
  /\ UNCHANGED <<perf, heap, pc, ubps, tip, running, sources, now, os_cpu,
                 on_stats, cpu_call, budget, hist>>

CallUpdateMovingAverage ==
  /\ \E w \in 0..MaxCount, old \in AvgSamples, new \in AvgSamples,
        evicted \in AvgSamples :
       avg_call' = [fn |-> "moving", count |-> w, old |-> old, new |-> new,
                    evicted |-> evicted,
                    ret |-> gst_perf_update_moving_average(w, old, new,
                                                           evicted)]
  /\ UNCHANGED <<perf, heap, pc, ubps, tip, running, sources, now, os_cpu,
                 on_stats, cpu_call, budget, hist>>

NextAvg == CallUpdateAverage \/ CallUpdateMovingAverage

SpecAvg == Init /\ [][NextAvg]_vars

(***************************************************************************)
(* SpecCpu: the CPU load estimator fed with successive readings of the     *)
(* cumulative counters, and the reset gst_perf_clear applies to it.        *)
(***************************************************************************)

\* readings of /proc/stat: the counters only grow, idle no faster than total
CpuReadings ==
  {Reading(100, 200), Reading(150, 300), Reading(200, 400),
   Reading(300, 700), Reading(817, 1300), Reading(1000, 1700),
   Reading(1200, 2000), Reading(1482, 2300), Reading(1482, 3300),
   Reading(1482, 4297268), Reading(2000, 4298268)}

Later(r, s) ==
  /\ LimbVal(r.idle) <= LimbVal(s.idle)
  /\ LimbVal(r.total) <= LimbVal(s.total)
  /\ LimbVal(s.idle) - LimbVal(r.idle) <= LimbVal(s.total) - LimbVal(r.total)

\* one call of gst_perf_cpu_get_load, and what it was given and gave
\* (seen: the estimator has run since the last clear; first: this call ran
\* it for the first time since then)
CpuCallOf(p, reading) ==
  LET r == gst_perf_cpu_get_load(p, reading)
  IN [called |-> TRUE,
      seen |-> cpu_call.seen \/ reading.ok,
      first |-> reading.ok /\ ~cpu_call.seen,
      ret |-> r.ret,
      prev_idle |-> p.prev_cpu_idle,
      prev_total |-> p.prev_cpu_total,
      idle |-> reading.idle,
      total |-> reading.total,
      cpu_load |-> r.cpu_load]

CpuGetLoad(p, reading) ==
  /\ perf' = gst_perf_cpu_get_load(p, reading).perf
  /\ os_cpu' = IF reading.ok THEN reading ELSE os_cpu
  /\ cpu_call' = CpuCallOf(p, reading)

CpuRead ==
  /\ \E reading \in {r \in CpuReadings : Later(os_cpu, r)} \cup {FailedRead} :
       CpuGetLoad(perf, reading)
  /\ UNCHANGED <<heap, pc, ubps, tip, running, sources, now, on_stats,
                 avg_call, budget, hist>>

CpuClear ==
  /\ perf' = gst_perf_clear(perf)
  /\ cpu_call' = NoCpuCall
  /\ UNCHANGED <<heap, pc, ubps, tip, running, sources, now, os_cpu,
                 on_stats, avg_call, budget, hist>>

NextCpu == CpuRead \/ CpuClear

SpecCpu == Init /\ [][NextCpu]_vars

(***************************************************************************)
(* The window buffer.  A block stays in the heap after g_free, marked not  *)
(* live.  A load outside a live block is undefined: it yields what the     *)
(* memory last held or any other value; a store outside a live block is    *)
(* not seen by later loads of the model.  (A crash, the other outcome,     *)
(* only ends the behaviour and adds no state.)                             *)
(***************************************************************************)
Garbage == {D(7)}

Valid(ptr, idx) ==
  /\ ptr # NULL
  /\ heap[ptr].live
  /\ idx < Len(heap[ptr].mem)

LoadDouble(ptr, idx) ==
  IF Valid(ptr, idx) THEN {heap[ptr].mem[idx + 1]}
  ELSE Garbage \cup
       (IF ptr # NULL /\ idx < Len(heap[ptr].mem)
        THEN {heap[ptr].mem[idx + 1]} ELSE {})

\* g_malloc0 (n * sizeof (gdouble))
Malloc0(n) == Append(heap, [live |-> TRUE, mem |-> [i \in 1..n |-> D(0)]])

\* g_free: NULL is ignored; freeing a block twice is recorded as a fault
Free(ptr) ==
  IF ptr = NULL THEN heap ELSE [heap EXCEPT ![ptr].live = FALSE]

\* what is wrong with an access by thread th to slot idx of the block at ptr
FaultOf(th, ptr, idx) ==
  IF ptr = NULL THEN {[by |-> th, kind |-> "null"]}
  ELSE IF ~heap[ptr].live THEN {[by |-> th, kind |-> "freed"]}
  ELSE IF idx >= Len(heap[ptr].mem) THEN {[by |-> th, kind |-> "bounds"]}
  ELSE {}

(***************************************************************************)
(* gst_perf_update_bps, run by the timer thread (the GLib timeout) and by  *)
(* the streaming thread (the call that ends gst_perf_transform_ip).  One   *)
(* step per access to the shared element; a critical section (lock, one    *)
(* access, unlock) is one step, since nothing else touches the field while *)
(* its mutex is held.                                                      *)
(***************************************************************************)
SamplerLabels ==
  {"u_drain", "u_read_mean", "u_average", "u_store", "u_write_mean",
   "u_write_bps", "u_incr_load", "u_incr_store"}

InSampler(th) == pc[th] \in SamplerLabels
Goto(th, label) == pc' = [pc EXCEPT ![th] = label]

\* the three GMutex fields of the element and the lock of its GstObject;
\* each holds the thread that has it locked
Mutexes == {"byte_count_mutex", "bps_mutex", "mean_bps_mutex", "object_lock"}
NoMutex == "none"

\* g_mutex_lock, GST_OBJECT_LOCK: the calling thread goes on once the
\* mutex is free (or is the one it has just taken)
Lockable(th, m) == perf[m] \in {NoThread, th}

\* a plausible slip: a critical section that ends without its unlock
Unlock_mut(p, m) == p

\* g_mutex_unlock, GST_OBJECT_UNLOCK
Unlock(p, m) == [p EXCEPT ![m] = NoThread]

\* byte_count = perf->byte_count: the guint64 field lands in a guint local
DrainedValue(byte_count) == LimbCast(byte_count, 2)

RunningInterval(p) == p.bps_running_interval

\* byte_count * GST_PERF_BITS_PER_BYTE is a guint product; the quotient by
\* (bps_running_interval / GST_PERF_MS_PER_S) is taken in doubles
BitsPerSecond(byte_count, interval) ==
  DDiv(D(LimbVal(LimbMul(byte_count, GST_PERF_BITS_PER_BYTE))),
       DDiv(D(interval), D(GST_PERF_MS_PER_S)))

\* a plausible slip: the counter is advanced before the slot is chosen
BufferCurrentIdx_mut(total, window_size) == (total + 1) % window_size

BufferCurrentIdx(total, window_size) == total % window_size

\* lines 338-341
UpdDrain(th) ==
  /\ pc[th] = "u_drain"
  /\ Lockable(th, "byte_count_mutex")
  /\ ubps' = [ubps EXCEPT ![th].byte_count = DrainedValue(perf.byte_count),
                          ![th].counter = perf.byte_count]
  /\ perf' = Unlock([perf EXCEPT !.byte_count = U64(0)], "byte_count_mutex")
  /\ hist' = [hist EXCEPT !.drained =
                LimbAdd(@, LimbCast(DrainedValue(perf.byte_count), 4))]
  /\ Goto(th, "u_read_mean")
  /\ UNCHANGED <<heap, tip, running, sources, now, os_cpu, on_stats,
                 cpu_call, avg_call, budget>>

\* lines 343-345
UpdReadMean(th) ==
  /\ pc[th] = "u_read_mean"
  /\ Lockable(th, "mean_bps_mutex")
  /\ ubps' = [ubps EXCEPT ![th].mean_bps = perf.mean_bps]
  /\ perf' = Unlock(perf, "mean_bps_mutex")
  /\ Goto(th, "u_average")
  /\ UNCHANGED <<heap, tip, running, sources, now, os_cpu, on_stats,
                 cpu_call, avg_call, budget, hist>>

\* lines 347-365: the sample, then the running average or the load of the
\* evicted sample and the moving average
UpdAverage(th) ==
  /\ pc[th] = "u_average"
  /\ LET bps == BitsPerSecond(ubps[th].byte_count, RunningInterval(perf))
         w == perf.bps_window_size
     IN IF w = 0
        THEN /\ ubps' = [ubps EXCEPT
                  ![th].bps = bps,
                  ![th].interval = RunningInterval(perf),
                  ![th].count = perf.byte_count_total,
                  ![th].window_size = 0,
                  ![th].mean_bps =
                     gst_perf_update_average(perf.byte_count_total, bps,
                                             ubps[th].mean_bps)]
             /\ Goto(th, "u_write_mean")
             /\ hist' = hist
        ELSE LET idx == BufferCurrentIdx(perf.byte_count_total, w)
             IN /\ \E old \in LoadDouble(perf.bps_window_buffer, idx) :
                     ubps' = [ubps EXCEPT
                        ![th].bps = bps,
                        ![th].interval = RunningInterval(perf),
                        ![th].count = perf.byte_count_total,
                        ![th].window_size = w,
                        ![th].buffer_current_idx = idx,
                        ![th].old_sample = old,
                        ![th].mean_bps =
                           gst_perf_update_moving_average(
                             w, ubps[th].mean_bps, bps, old)]
                /\ Goto(th, "u_store")
                /\ hist' = [hist EXCEPT !.faults =
                              @ \cup FaultOf(th, perf.bps_window_buffer, idx)]
  /\ UNCHANGED <<perf, heap, tip, running, sources, now, os_cpu, on_stats,
                 cpu_call, avg_call, budget>>

\* line 367
UpdStore(th) ==
  /\ pc[th] = "u_store"
  /\ LET ptr == perf.bps_window_buffer
         idx == ubps[th].buffer_current_idx
     IN IF Valid(ptr, idx)
        THEN /\ heap' = [heap EXCEPT ![ptr].mem[idx + 1] = ubps[th].bps]
             /\ hist' = hist
        ELSE /\ heap' = heap
             /\ hist' = [hist EXCEPT !.faults =
                           @ \cup FaultOf(th, ptr, idx)]
  /\ Goto(th, "u_write_mean")
  /\ UNCHANGED <<perf, ubps, tip, running, sources, now, os_cpu, on_stats,
                 cpu_call, avg_call, budget>>

\* lines 370-372
UpdWriteMean(th) ==
  /\ pc[th] = "u_write_mean"
  /\ Lockable(th, "mean_bps_mutex")
  /\ perf' = Unlock([perf EXCEPT !.mean_bps = ubps[th].mean_bps],
                    "mean_bps_mutex")
  /\ Goto(th, "u_write_bps")
  /\ UNCHANGED <<heap, ubps, tip, running, sources, now, os_cpu, on_stats,
                 cpu_call, avg_call, budget, hist>>

\* lines 373-375
UpdWriteBps(th) ==
  /\ pc[th] = "u_write_bps"
  /\ Lockable(th, "bps_mutex")
  /\ perf' = Unlock([perf EXCEPT !.bps = ubps[th].bps], "bps_mutex")
  /\ Goto(th, "u_incr_load")
  /\ UNCHANGED <<heap, ubps, tip, running, sources, now, os_cpu, on_stats,
                 cpu_call, avg_call, budget, hist>>

\* perf->byte_count_total++ is a load and a store, under no lock
UpdIncrLoad(th) ==
  /\ pc[th] = "u_incr_load"
  /\ ubps' = [ubps EXCEPT ![th].total = perf.byte_count_total]
  /\ Goto(th, "u_incr_store")
  /\ UNCHANGED <<perf, heap, tip, running, sources, now, os_cpu, on_stats,
                 cpu_call, avg_call, budget, hist>>

\* the store, and the return to the main loop or, with GST_FLOW_OK (line
\* 703, the only return of gst_perf_transform_ip), to the base class; the
\* locals end with the call
UpdIncrStore(th) ==
  /\ pc[th] = "u_incr_store"
  /\ perf' = [perf EXCEPT !.byte_count_total = ubps[th].total + 1]
  /\ hist' = [hist EXCEPT !.samples =
                Append(@, [by |-> th,
                           drained |-> ubps[th].byte_count,
                           counter |-> ubps[th].counter,
                           interval |-> ubps[th].interval,
                           count |-> ubps[th].count,
                           bps |-> ubps[th].bps,
                           window_size |-> ubps[th].window_size,
                           idx |-> ubps[th].buffer_current_idx,
                           evicted |-> ubps[th].old_sample,
                           mean_bps |-> ubps[th].mean_bps]),
                          !.returned = IF th = "stream" THEN @ + 1 ELSE @]
  /\ ubps' = [ubps EXCEPT ![th] = NoUbps]
  /\ tip' = IF th = "stream" THEN NoTip ELSE tip
  /\ Goto(th, "idle")
  /\ UNCHANGED <<heap, running, sources, now, os_cpu, on_stats, cpu_call,
                 avg_call, budget>>

gst_perf_update_bps(th) ==
  \/ UpdDrain(th)
  \/ UpdReadMean(th)
  \/ UpdAverage(th)
  \/ UpdStore(th)
  \/ UpdWriteMean(th)
  \/ UpdWriteBps(th)
  \/ UpdIncrLoad(th)
  \/ UpdIncrStore(th)

\* the main loop dispatches the timeout source: the callback starts
TimerDispatch ==
  /\ sources # {}
  /\ pc["timer"] = "idle"
  /\ budget.ticks < MaxTicks
  /\ Goto("timer", "u_drain")
  /\ budget' = [budget EXCEPT !.ticks = @ + 1]
  /\ hist' = [hist EXCEPT !.clean = @ /\ ~InSampler("stream")]
  /\ UNCHANGED <<perf, heap, ubps, tip, running, sources, now, os_cpu,
                 on_stats, cpu_call, avg_call>>

(***************************************************************************)
(* gst_perf_transform_ip, on the streaming thread.                         *)
(***************************************************************************)
\* gst_buffer_get_size: 1 byte, and 2^32 + 2^29 bytes
BufferSizes == {U64(1), <<0, 8192, 1, 0>>}

\* the reading of /proc/stat offered to the reports of the main model (the
\* estimator is exercised on its own under SpecCpu)
SpecReadings == {Reading(100, 200)}

GST_CLOCK_TIME_IS_VALID(t) == t # GST_CLOCK_TIME_NONE

\* (GstClockTimeDiff) (e - s), stored in the unsigned diff: from an invalid
\* s = 2^64 - 1 the difference wraps to e + 1
GST_CLOCK_DIFF(s, e) == IF s = GST_CLOCK_TIME_NONE THEN e + 1 ELSE e - s

\* lines 630-631: a report is due
ReportDue(prev_timestamp, time) ==
  \/ ~GST_CLOCK_TIME_IS_VALID(prev_timestamp)
  \/ /\ GST_CLOCK_TIME_IS_VALID(time)
     /\ GST_CLOCK_DIFF(prev_timestamp, time) >= GST_SECOND

\* lines 626-646: the buffer arrives and the monotonic clock is read; when
\* a report is due the frame rate is computed and folded into its average
TransformIp ==
  /\ running
  /\ pc["stream"] = "idle"
  /\ budget.buffers < MaxBuffers
  /\ budget' = [budget EXCEPT !.buffers = @ + 1]
  /\ \E size \in BufferSizes, time \in now..MaxTime :
       LET diff == GST_CLOCK_DIFF(perf.prev_timestamp, time)
           time_factor == DDiv(D(diff), D(GST_SECOND))
           fps == DDiv(D(perf.frame_count), time_factor)
           t == [tip EXCEPT !.size = size, !.time = time, !.diff = diff,
                            !.prev = perf.prev_timestamp]
       IN /\ now' = time
          /\ IF ReportDue(perf.prev_timestamp, time)
             THEN /\ tip' = [t EXCEPT !.fps = fps,
                                      !.frames = perf.frame_count]
                  /\ perf' = [perf EXCEPT
                       !.fps = gst_perf_update_average(
                                 perf.frame_count_total, fps, perf.fps),
                       !.frame_count_total = @ + 1]
                  /\ Goto("stream", "r_read_bps")
             ELSE /\ tip' = t
                  /\ perf' = perf
                  /\ Goto("stream", "t_add")
  /\ hist' = [hist EXCEPT !.buffers = @ + 1]
  /\ UNCHANGED <<heap, ubps, running, sources, os_cpu, on_stats, cpu_call,
                 avg_call>>

\* lines 648-650
ReportReadBps ==
  /\ pc["stream"] = "r_read_bps"
  /\ Lockable("stream", "bps_mutex")
  /\ tip' = [tip EXCEPT !.bps = perf.bps]
  /\ perf' = Unlock(perf, "bps_mutex")
  /\ Goto("stream", "r_read_mean")
  /\ UNCHANGED <<heap, ubps, running, sources, now, os_cpu, on_stats,
                 cpu_call, avg_call, budget, hist>>

\* lines 652-654
ReportReadMean ==
  /\ pc["stream"] = "r_read_mean"
  /\ Lockable("stream", "mean_bps_mutex")
  /\ tip' = [tip EXCEPT !.mean_bps = perf.mean_bps]
  /\ perf' = Unlock(perf, "mean_bps_mutex")
  /\ Goto("stream", "r_print")
  /\ UNCHANGED <<heap, ubps, running, sources, now, os_cpu, on_stats,
                 cpu_call, avg_call, budget, hist>>

\* lines 666-668: print_cpu_load is read under the object lock (the reset
\* of lines 663-664, on fields private to the streaming thread, is taken
\* with the rest of the report)
ReportReadPrint ==
  /\ pc["stream"] = "r_print"
  /\ Lockable("stream", "object_lock")
  /\ tip' = [tip EXCEPT !.print_cpu_load = perf.print_cpu_load]
  /\ perf' = Unlock(perf, "object_lock")
  /\ Goto("stream", "r_emit")
  /\ UNCHANGED <<heap, ubps, running, sources, now, os_cpu, on_stats,
                 cpu_call, avg_call, budget, hist>>

\* what nvidia-smi prints to the reports: a full line, a line cut short
GpuOutputs ==
  {GpuFailed, GpuOutput(<<1, 2, 3, 4, 5, 6, 7>>), GpuOutput(<<9, 8>>)}

\* lines 663-691: the frame counter and the baseline are reset, the CPU
\* counters are read and, when enabled, the GPU is queried, all private to
\* the streaming thread; then the message carries the values read under
\* the locks and the "on-stats" signal carries perf->bps, perf->mean_bps
\* and perf->gpu_stats as they are now
Report(readings, outputs) ==
  /\ pc["stream"] = "r_emit"
  /\ \E reading \in {r \in readings : r.ok => Later(os_cpu, r)},
        output \in IF perf.gpu_stats_enabled THEN outputs ELSE {GpuFailed} :
       LET p == [gst_perf_reset(perf) EXCEPT !.prev_timestamp = tip.time]
           c == gst_perf_cpu_get_load(p, reading)
           g == IF perf.gpu_stats_enabled
                THEN gst_perf_get_gpu_stats(c.perf, output)
                ELSE [perf |-> c.perf, ret |-> FALSE]
       IN /\ perf' = g.perf
          /\ os_cpu' = IF reading.ok THEN reading ELSE os_cpu
          /\ cpu_call' = CpuCallOf(p, reading)
          /\ on_stats' =
               [n |-> on_stats.n + 1, time |-> tip.time,
                prev |-> tip.prev, diff |-> tip.diff,
                frames |-> tip.frames,
                fps |-> tip.fps, mean_fps |-> perf.fps,
                bps |-> perf.bps, mean_bps |-> perf.mean_bps,
                info_bps |-> tip.bps, info_mean_bps |-> tip.mean_bps,
                cpu_load |-> c.cpu_load, cpu_ok |-> c.ret,
                gpu |-> g.perf.gpu_stats,
                gpu_enabled |-> perf.gpu_stats_enabled,
                gpu_ok |-> g.ret]
  /\ hist' = [hist EXCEPT !.reports = @ + 1,
                          !.prev_trigger = hist.trigger,
                          !.trigger = hist.buffers]
  /\ Goto("stream", "t_add")
  /\ UNCHANGED <<heap, ubps, tip, running, sources, now, avg_call, budget>>

\* the report of the main model: one reading, the GPU never enabled
ReportEmit == Report(SpecReadings, {GpuFailed})

\* the report with a read of the counters that may fail and any GPU output
ReportReadings == {Reading(100, 200), Reading(150, 300), FailedRead}

ReportAny == Report(ReportReadings, GpuOutputs)

\* lines 696-701: the frame is counted, the bytes are added and
\* gst_perf_update_bps is entered
AddBytes ==
  /\ pc["stream"] = "t_add"
  /\ Lockable("stream", "byte_count_mutex")
  /\ perf' = Unlock([perf EXCEPT !.frame_count = @ + 1,
                                 !.byte_count = LimbAdd(@, tip.size)],
                    "byte_count_mutex")
  /\ hist' = [hist EXCEPT !.added = LimbAdd(@, tip.size),
                          !.clean = @ /\ ~InSampler("timer")]
  /\ Goto("stream", "u_drain")
  /\ UNCHANGED <<heap, ubps, tip, running, sources, now, os_cpu, on_stats,
                 cpu_call, avg_call, budget>>

gst_perf_transform_ip ==
  \/ TransformIp
  \/ ReportReadBps
  \/ ReportReadMean
  \/ ReportReadPrint
  \/ ReportEmit
  \/ AddBytes
  \/ gst_perf_update_bps("stream")

(***************************************************************************)
(* The application thread: start, stop and the writable properties.  The   *)
(* base class calls stop once the streaming thread has left the element;   *)
(* nothing keeps the main loop from running the timeout meanwhile.         *)
(***************************************************************************)
Intervals == {DEFAULT_BITRATE_INTERVAL, 2 * DEFAULT_BITRATE_INTERVAL}

\* lines 382-407
gst_perf_start ==
  /\ ~running
  /\ pc["app"] = "idle"
  /\ pc["stream"] = "idle"
  /\ budget.sessions < MaxSessions
  /\ LET p == gst_perf_clear(perf)
         id == budget.sessions + 1
     IN /\ IF p.bps_window_size # 0
           THEN /\ heap' = Malloc0(p.bps_window_size)
                /\ perf' = [p EXCEPT !.bps_window_buffer = Len(heap) + 1,
                                     !.bps_running_interval = p.bps_interval,
                                     !.bps_source_id = id]
           ELSE /\ heap' = heap
                /\ perf' = [p EXCEPT !.bps_running_interval = p.bps_interval,
                                     !.bps_source_id = id]
        /\ sources' = sources \cup {id}
        /\ hist' = [NoHist EXCEPT !.window = p.bps_window_size,
                                  !.interval = p.bps_interval,
                                  !.fresh = ~InSampler("timer"),
                                  !.clean = ~InSampler("timer"),
                                  !.faults = hist.faults]
  /\ running' = TRUE
  /\ budget' = [budget EXCEPT !.sessions = @ + 1]
  /\ UNCHANGED <<pc, ubps, tip, now, os_cpu, on_stats, cpu_call, avg_call>>

\* line 414
StopClear ==
  /\ running
  /\ pc["app"] = "idle"
  /\ pc["stream"] = "idle"
  /\ running' = FALSE
  /\ perf' = gst_perf_clear(perf)
  /\ hist' = [NoHist EXCEPT !.fresh = FALSE, !.clean = FALSE,
                            !.faults = hist.faults]
  /\ cpu_call' = NoCpuCall
  /\ Goto("app", "stop_free")
  /\ UNCHANGED <<heap, ubps, tip, sources, now, os_cpu, on_stats, avg_call,
                 budget>>

\* line 416
StopFree ==
  /\ pc["app"] = "stop_free"
  /\ heap' = Free(perf.bps_window_buffer)
  /\ hist' = [hist EXCEPT !.faults =
                IF perf.bps_window_buffer # NULL
                   /\ ~heap[perf.bps_window_buffer].live
                THEN @ \cup {[by |-> "app", kind |-> "double free"]} ELSE @]
  /\ Goto("app", "stop_remove")
  /\ UNCHANGED <<perf, ubps, tip, running, sources, now, os_cpu, on_stats,
                 cpu_call, avg_call, budget>>

\* lines 418-423: the source is detached; a callback already running is
\* not waited for
StopRemove ==
  /\ pc["app"] = "stop_remove"
  /\ sources' = sources \ {perf.bps_source_id}
  /\ Goto("app", "idle")
  /\ UNCHANGED <<perf, heap, ubps, tip, running, now, os_cpu, on_stats,
                 cpu_call, avg_call, budget, hist>>

gst_perf_stop == StopClear \/ StopFree \/ StopRemove

\* lines 269-278: bitrate-window-size and bitrate-interval
SetWindowSize ==
  /\ pc["app"] = "idle"
  /\ Lockable("app", "object_lock")
  /\ budget.sets < MaxSets
  /\ budget' = [budget EXCEPT !.sets = @ + 1]
  /\ \E v \in 0..MaxWindow :
       /\ v # perf.bps_window_size
       /\ perf' = Unlock([perf EXCEPT !.bps_window_size = v], "object_lock")
  /\ UNCHANGED <<heap, pc, ubps, tip, running, sources, now, os_cpu,
                 on_stats, cpu_call, avg_call, hist>>

SetIntervalTo(intervals) ==
  /\ pc["app"] = "idle"
  /\ Lockable("app", "object_lock")
  /\ budget.sets < MaxSets
  /\ budget' = [budget EXCEPT !.sets = @ + 1]
  /\ \E v \in intervals :
       /\ v # perf.bps_interval
       /\ perf' = Unlock([perf EXCEPT !.bps_interval = v], "object_lock")
  /\ UNCHANGED <<heap, pc, ubps, tip, running, sources, now, os_cpu,
                 on_stats, cpu_call, avg_call, hist>>

SetInterval == SetIntervalTo(Intervals)

gst_perf_set_property == SetWindowSize \/ SetInterval

\* lines 279-283: gpu-stats-enabled
SetGpuStatsEnabled ==
  /\ pc["app"] = "idle"
  /\ Lockable("app", "object_lock")
  /\ perf' = Unlock([perf EXCEPT !.gpu_stats_enabled = ~@], "object_lock")
  /\ UNCHANGED <<heap, pc, ubps, tip, running, sources, now, os_cpu,
                 on_stats, cpu_call, avg_call, budget, hist>>

Next ==
  \/ gst_perf_start
  \/ gst_perf_stop
  \/ gst_perf_set_property
  \/ gst_perf_transform_ip
  \/ TimerDispatch
  \/ gst_perf_update_bps("timer")

Spec == Init /\ [][Next]_vars

(***************************************************************************)
(* The data path on its own: sessions, buffers and their reports, with     *)
(* every outcome of the CPU read and of the GPU query, and no timer.       *)
(***************************************************************************)
NextReport ==
  \/ gst_perf_start
  \/ gst_perf_stop
  \/ SetWindowSize
  \/ SetGpuStatsEnabled
  \/ TransformIp
  \/ ReportReadBps
  \/ ReportReadMean
  \/ ReportReadPrint
  \/ ReportAny
  \/ AddBytes
  \/ gst_perf_update_bps("stream")

SpecReport == Init /\ [][NextReport]_vars

(***************************************************************************)
(* SpecInterval: the data path with the least values the two bitrate       *)
(* properties accept (both range over 0..G_MAXINT, lines 199-209).         *)
(***************************************************************************)
LeastIntervals == {0, 1}

SetIntervalLeast == SetIntervalTo(LeastIntervals)

NextInterval ==
  \/ gst_perf_start
  \/ gst_perf_stop
  \/ SetWindowSize
  \/ SetIntervalLeast
  \/ gst_perf_transform_ip

SpecInterval == Init /\ [][NextInterval]_vars

(***************************************************************************)
(* SpecLife: sessions one after the other, the window size set to any      *)
(* value between them, and the timer; no buffers.                          *)
(***************************************************************************)
\* lines 269-273, while the element is stopped
SetWindowSizeStopped ==
  /\ ~running
  /\ pc["app"] = "idle"
  /\ Lockable("app", "object_lock")
  /\ \E v \in 0..MaxWindow :
       /\ v # perf.bps_window_size
       /\ perf' = Unlock([perf EXCEPT !.bps_window_size = v], "object_lock")
  /\ UNCHANGED <<heap, pc, ubps, tip, running, sources, now, os_cpu,
                 on_stats, cpu_call, avg_call, budget, hist>>

NextLife ==
  \/ gst_perf_start
  \/ gst_perf_stop
  \/ SetWindowSizeStopped
  \/ TimerDispatch
  \/ gst_perf_update_bps("timer")

SpecLife == Init /\ [][NextLife]_vars

(***************************************************************************)
(* SpecLocks: the three threads with every lock call a step of its own.    *)
(* A thread at the head of a critical section first takes the mutex, in a  *)
(* step that waits while another thread has it; the access and the unlock  *)
(* are the step of the section.  The application thread sets               *)
(* print-cpu-load under the object lock (or bitrate-window-size, in one    *)
(* step before the first session), and starts and stops sessions.          *)
(***************************************************************************)
\* the mutex of the critical section at each position of the code
MutexAt(label) ==
  CASE label \in {"u_drain", "t_add"} -> "byte_count_mutex"
    [] label \in {"u_read_mean", "u_write_mean", "r_read_mean"} ->
         "mean_bps_mutex"
    [] label \in {"u_write_bps", "r_read_bps"} -> "bps_mutex"
    [] label \in {"r_print", "p_print"} -> "object_lock"
    [] OTHER -> NoMutex

Holds(th) == {m \in Mutexes : perf[m] = th}

\* g_mutex_lock, GST_OBJECT_LOCK at the head of a section
Acquire(th) ==
  /\ MutexAt(pc[th]) # NoMutex
  /\ perf[MutexAt(pc[th])] = NoThread
  /\ perf' = [perf EXCEPT ![MutexAt(pc[th])] = th]
  /\ UNCHANGED <<heap, pc, ubps, tip, running, sources, now, os_cpu,
                 on_stats, cpu_call, avg_call, budget, hist>>

\* a thread at the head of a section enters it with the mutex taken
Entered(th) == MutexAt(pc[th]) # NoMutex => perf[MutexAt(pc[th])] = th

\* g_object_set (perf, "print-cpu-load", ...) is called
SetPropertyCall ==
  /\ pc["app"] = "idle"
  /\ budget.sets < MaxSets
  /\ budget' = [budget EXCEPT !.sets = @ + 1]
  /\ Goto("app", "p_print")
  /\ UNCHANGED <<perf, heap, ubps, tip, running, sources, now, os_cpu,
                 on_stats, cpu_call, avg_call, hist>>

\* lines 264-268
SetPrintCpuLoad ==
  /\ pc["app"] = "p_print"
  /\ Lockable("app", "object_lock")
  /\ \E v \in BOOLEAN :
       perf' = Unlock([perf EXCEPT !.print_cpu_load = v], "object_lock")
  /\ Goto("app", "idle")
  /\ UNCHANGED <<heap, ubps, tip, running, sources, now, os_cpu, on_stats,
                 cpu_call, avg_call, budget, hist>>

NextLocks ==
  \/ \E th \in {"stream", "timer", "app"} : Acquire(th)
  \/ Entered("app") /\ (gst_perf_start \/ gst_perf_stop \/ SetPropertyCall
                          \/ SetPrintCpuLoad)
  \/ budget.sessions = 0 /\ SetWindowSize
  \/ Entered("stream") /\ gst_perf_transform_ip
  \/ TimerDispatch
  \/ Entered("timer") /\ gst_perf_update_bps("timer")

SpecLocks == Init /\ [][NextLocks]_vars

(***************************************************************************)
(* Properties.                                                             *)
(***************************************************************************)

\* the samples the session has taken so far, in the order they ended
Samples == hist.samples
NumSamples == Len(hist.samples)

\* the sampler calls of the session ran one at a time, from a start that no
\* callback of an earlier session was still running through
OneAtATime == running /\ hist.clean

\* C1: for any interleaving of additions and drains, the drained values and
\* the bytes still in byte_count add up to the bytes added: none is lost,
\* none counted twice.
C1_ByteAccountingExact ==
  LimbAdd(hist.drained, perf.byte_count) = hist.added

\* C2: in no interleaving of stop with a pending or running timer callback
\* does the callback access the window buffer after it has been freed.
C2_NoTickAfterFree ==
  \A f \in hist.faults : ~(f.by = "timer" /\ f.kind = "freed")

\* C3: no report fires before a second has passed since the previous report
\* or the start of the session: the first buffer after start only sets the
\* baseline, every later report is a second or more after the previous one.
C3_ReportCadence ==
  on_stats.n > 0 =>
    /\ GST_CLOCK_TIME_IS_VALID(on_stats.prev)
    /\ on_stats.time - on_stats.prev >= GST_SECOND

\* C4: a buffer only adds its size to byte_count and counts a frame; the
\* drain, the publication of bps and mean_bps and the advance of
\* byte_count_total are done by the timer callback alone.
C4_SamplingOnlyByTimer ==
  /\ ~InSampler("stream")
  /\ \A k \in 1..NumSamples : Samples[k].by = "timer"

\* the bits of a drained value, as a 64-bit number
DrainedBits(drained) == LimbMul(LimbCast(drained, 4), GST_PERF_BITS_PER_BYTE)

\* bps * (interval / 1000) is the whole number of bits drained
BitsExact(s) ==
  LET bits == DMul(s.bps, DDiv(D(s.interval), D(GST_PERF_MS_PER_S)))
  IN /\ bits.d = 1
     /\ bits.n >= 0
     /\ U64(bits.n) = DrainedBits(s.drained)

\* C5: every sampler call publishes bps = drained bytes * 8 /
\* (interval_ms / 1000), the interval being the one the session started
\* with.
C5_BitsPerSecond ==
  \A k \in 1..NumSamples :
    /\ BitsExact(Samples[k])
    /\ OneAtATime => Samples[k].interval = hist.interval

RECURSIVE SumBps(_)
SumBps(k) == IF k = 0 THEN D(0) ELSE DAdd(SumBps(k - 1), Samples[k].bps)

\* C6: with bitrate-window-size 0, after n >= 1 sampler calls run one at a
\* time, the published mean_bps is the arithmetic mean of the n samples of
\* the session.
C6_RunningMeanOfAll ==
  ( /\ OneAtATime
    /\ NumSamples >= 1
    /\ \A th \in Threads : ~InSampler(th)
    /\ perf.bps_window_size = 0
    /\ \A k \in 1..NumSamples : Samples[k].window_size = 0 ) =>
    DMul(perf.mean_bps, D(NumSamples)) = SumBps(NumSamples)

\* C7: update_running_average(count, new, old) is 0 when count = 0 and
\* ((count-1)*old + new)/count otherwise, so that a constant sample fed
\* with counts 1, 2, 3, ... (old being the previous result) comes back
\* unchanged.
C7_RunningAverage ==
  avg_call.fn = "average" =>
    /\ avg_call.count = 0 => avg_call.ret = D(0)
    /\ avg_call.count # 0 =>
         DMul(avg_call.ret, D(avg_call.count)) =
           DAdd(DMul(D(avg_call.count - 1), avg_call.old), avg_call.new)
    /\ (avg_call.count = 1 \/
        (avg_call.count > 1 /\ avg_call.old = avg_call.new)) =>
         avg_call.ret = avg_call.new

C7_Witness ==
  /\ avg_call.fn = "average"
  /\ avg_call.count = 3
  /\ avg_call.old = D(10)
  /\ avg_call.new = D(10)
  /\ avg_call.ret = D(10)

\* C8: with window size W > 0 and sampler calls run one at a time, the k-th
\* sample of the session goes to slot (k-1) mod W and, for k > W, evicts
\* the sample of call k-W; a slot never written holds 0.
C8_WindowSlots ==
  ( /\ OneAtATime
    /\ hist.window > 0
    /\ \A k \in 1..NumSamples : Samples[k].window_size = hist.window ) =>
    \A k \in 1..NumSamples :
      /\ Samples[k].idx = (k - 1) % hist.window
      /\ Samples[k].evicted =
           IF k > hist.window THEN Samples[k - hist.window].bps ELSE D(0)

\* W = 2, samples 8, 0 and a third: the third evicts the 8, not the 0
C8_Witness ==
  /\ OneAtATime
  /\ hist.window = 2
  /\ NumSamples = 3
  /\ \A k \in 1..NumSamples : Samples[k].window_size = 2
  /\ Samples[1].bps = D(8)
  /\ Samples[2].bps = D(0)
  /\ Samples[3].idx = 0
  /\ Samples[3].evicted = D(8)

\* the elapsed ticks of the last estimator call, as plain integers
CpuDeltaIdle == LimbVal(cpu_call.idle) - LimbVal(cpu_call.prev_idle)
CpuDeltaTotal == LimbVal(cpu_call.total) - LimbVal(cpu_call.prev_total)
CpuBusy == CpuDeltaTotal - CpuDeltaIdle

\* floor(1000 * b / t) for 0 <= b <= t, computed without leaving the
\* integers of the checker: 1000 - ceil(1000 * (t - b) / t) when b is large
Permille(b, t) ==
  IF b <= 2000000 THEN (1000 * b) \div t
  ELSE 1000 - ((1000 * (t - b) + t - 1) \div t)

\* C9: with delta_total > 0 the estimator returns
\* (1000*busy/delta_total + 5)/10, busy = delta_total - delta_idle, and
\* stores the current snapshot as the previous one.
C9_CpuPercentage ==
  (cpu_call.called /\ cpu_call.ret /\ CpuDeltaTotal > 0) =>
    /\ LimbVal(cpu_call.cpu_load) = (Permille(CpuBusy, CpuDeltaTotal) + 5) \div 10
    /\ perf.prev_cpu_idle = cpu_call.idle
    /\ perf.prev_cpu_total = cpu_call.total

\* C10: the first estimator call after a reset returns 0 whatever the
\* counters read.
C10_FirstCallZero ==
  (cpu_call.called /\ cpu_call.first) => LimbIsZero(cpu_call.cpu_load)

\* a session started after an earlier one was stopped, before its first
\* buffer and its first sample, no callback of the earlier one left over
Restarted ==
  /\ running
  /\ budget.sessions >= 2
  /\ hist.fresh
  /\ hist.buffers = 0
  /\ NumSamples = 0
  /\ ~InSampler("timer")

\* the fields a fresh session starts from
SessionFields ==
  {"frame_count", "frame_count_total", "fps", "byte_count",
   "byte_count_total", "bps", "mean_bps", "prev_timestamp",
   "prev_cpu_total", "prev_cpu_idle", "gpu_stats"}

\* C11: after a session, stop and start, the counters, the averages, bps,
\* the timestamp baseline, the CPU and GPU snapshots have the values of a
\* fresh session and the window holds zeros: nothing is carried over.
C11_RestartReinitializes ==
  Restarted =>
    /\ \A f \in SessionFields : perf[f] = gst_perf_init[f]
    /\ hist.window # 0 =>
         /\ Valid(perf.bps_window_buffer, hist.window - 1)
         /\ \A i \in 1..hist.window :
              heap[perf.bps_window_buffer].mem[i] = D(0)

\* C12: the seven GPU fields of a report are all zero whenever GPU stats
\* are disabled at the time of the report or the query of that cycle
\* failed, an earlier successful query of the session notwithstanding.
C12_GpuZeroUnlessQueried ==
  (on_stats.n > 0 /\ (~on_stats.gpu_enabled \/ ~on_stats.gpu_ok)) =>
    on_stats.gpu = NoGpuStats

\* C13: when the read of the CPU counters fails the estimator is not run
\* (the previous snapshot stays), the report of that cycle is emitted with
\* cpu_load = 2^32 - 1, and every buffer handed in is handed back with
\* success.
C13_FailedCpuRead ==
  /\ (cpu_call.called /\ ~cpu_call.ret) =>
       /\ perf.prev_cpu_idle = cpu_call.prev_idle
       /\ perf.prev_cpu_total = cpu_call.prev_total
       /\ hist.reports > 0
       /\ ~on_stats.cpu_ok
       /\ on_stats.cpu_load = U32_MINUS_ONE
  /\ (running /\ pc["stream"] = "idle") => hist.returned = hist.buffers

\* a read succeeds, the next one fails: the snapshot of the first stays,
\* the second report is out and its buffer has returned
C13_Witness ==
  /\ cpu_call.called
  /\ ~cpu_call.ret
  /\ cpu_call.seen
  /\ perf.prev_cpu_total = U32(200)
  /\ hist.reports = 2
  /\ on_stats.cpu_load = U32_MINUS_ONE
  /\ pc["stream"] = "idle"
  /\ hist.returned = 2

\* C14: while the element is started with a window size above zero, the
\* window buffer is allocated and has exactly window-size slots, whatever
\* property writes happen.
C14_WindowBufferMatchesSize ==
  (running /\ perf.bps_window_size > 0) =>
    /\ Valid(perf.bps_window_buffer, 0)
    /\ Len(heap[perf.bps_window_buffer].mem) = perf.bps_window_size

\* C15: each thread holds at most one lock and holds none where the CPU
\* counters are read, the GPU is queried and the report is delivered, nor
\* anywhere in stop; a lock that is held is held by a thread inside the
\* section of that lock, whose next step releases it without waiting for
\* anything, so no thread waits for ever: there is no deadlock, a stop
\* while a tick is mid-flight included.
C15_LockDiscipline ==
  /\ \A th \in {"stream", "timer", "app"} :
       /\ Cardinality(Holds(th)) <= 1
       /\ Holds(th) \subseteq {MutexAt(pc[th])}
  /\ pc["stream"] = "r_emit" => Holds("stream") = {}
  /\ pc["app"] \in {"stop_free", "stop_remove"} => Holds("app") = {}
  /\ \A m \in Mutexes :
       perf[m] # NoThread => /\ MutexAt(pc[perf[m]]) = m
                             /\ Lockable(perf[m], m)

\* stop is between its clear and its free while the sampler tick it does
\* not wait for is inside the section of mean_bps
C15_Witness ==
  /\ pc["app"] = "stop_free"
  /\ perf.mean_bps_mutex = "timer"
  /\ pc["timer"] = "u_write_mean"

\* C16: no division is by zero, for any bitrate-interval and
\* bitrate-window-size in 0..G_MAXINT: the rates and their averages are
\* finite doubles in every state.
C16_AveragesFinite ==
  /\ DIsFinite(perf.fps)
  /\ DIsFinite(perf.bps)
  /\ DIsFinite(perf.mean_bps)
  /\ \A i \in 1..NumSamples : DIsFinite(Samples[i].bps)

\* C17: sampler invocations are atomic with respect to each other: in a
\* session no callback of an earlier one ran into, once k invocations from
\* the timer and from the data path have completed and none is under way,
\* byte_count_total is k (no increment is lost).
C17_SamplerAtomic ==
  (running /\ hist.fresh /\ ~InSampler("timer") /\ ~InSampler("stream")) =>
    perf.byte_count_total = NumSamples

\* C18: the bps and mean_bps of a report are one snapshot: the values the
\* "on-stats" signal delivers are the ones the report read under bps_mutex
\* and mean_bps_mutex, whatever sampler invocation runs meanwhile.
C18_ReportSnapshot ==
  on_stats.n > 0 => /\ on_stats.bps = on_stats.info_bps
                    /\ on_stats.mean_bps = on_stats.info_mean_bps

\* the buffers of the session whose perf->frame_count++ has run
FramesCounted ==
  hist.buffers -
    (IF pc["stream"] \in {"r_read_bps", "r_read_mean", "r_print", "r_emit",
                          "t_add"}
     THEN 1 ELSE 0)

\* C19: every buffer is counted in the frame count of exactly one report:
\* the count a report divides by the elapsed time is the number of buffers
\* since the previous report, the buffer that triggers a report counting
\* toward the next one; frame_count is zeroed once per report and at no
\* other time of the session, so it always is the number of buffers counted
\* since the last report.
C19_FramesPerReport ==
  /\ hist.reports > 0 =>
       /\ on_stats.frames = hist.trigger -
            (IF hist.prev_trigger = 0 THEN 1 ELSE hist.prev_trigger)
       /\ perf.frame_count = FramesCounted - (hist.trigger - 1)
  /\ hist.reports = 0 => perf.frame_count = FramesCounted

\* the second report of a session, triggered by the second buffer, carries
\* the one buffer counted since the first
C19_Witness ==
  /\ hist.reports = 2
  /\ hist.trigger = 2
  /\ hist.prev_trigger = 1
  /\ on_stats.frames = 1
  /\ pc["stream"] = "idle"
  /\ perf.frame_count = 1

\* C20: each stop releases exactly the window buffer its start allocated:
\* no block is freed twice, and once a stop has returned no block is left
\* allocated.
C20_StopFreesItsBuffer ==
  /\ [by |-> "app", kind |-> "double free"] \notin hist.faults
  /\ (~running /\ pc["app"] = "idle") =>
       \A b \in 1..Len(heap) : ~heap[b].live

\* the largest busy whose product by 1000 is below 2^32
MaxBusyUnwrapped == LimbVal(U32Div(U32_MINUS_ONE, U32(1000)))

\* 100 * b / t rounded to the nearest integer, halves up (0 <= b <= t)
RoundPercent(b, t) == (200 * b + t) \div (2 * t)

\* C21: for consecutive snapshots with delta_total > 0 and delta_idle <=
\* delta_total the product 1000 * busy stays below 2^32, and the percentage
\* returned lies in 0..100 and is 100 * busy / delta_total rounded to the
\* nearest integer.
C21_CpuPercentNoWrap ==
  ( /\ cpu_call.called
    /\ cpu_call.ret
    /\ CpuDeltaTotal > 0
    /\ CpuDeltaIdle >= 0
    /\ CpuDeltaIdle <= CpuDeltaTotal ) =>
      /\ CpuBusy <= MaxBusyUnwrapped
      /\ LimbVal(cpu_call.cpu_load) \in 0..100
      /\ LimbVal(cpu_call.cpu_load) = RoundPercent(CpuBusy, CpuDeltaTotal)

\* C22: the drained count and its conversion to bits lose nothing: a drain
\* that finds b bytes in the 64-bit counter yields a sample of exactly 8 * b
\* bits per interval second, for b of 2^29 and more and of 2^32 and more as
\* for small b.
C22_BitsWithoutLoss ==
  \A k \in 1..NumSamples :
    LET s == Samples[k]
        bits == DMul(s.bps, DDiv(D(s.interval), D(GST_PERF_MS_PER_S)))
    IN /\ LimbCast(s.drained, 4) = s.counter
       /\ bits.d = 1
       /\ bits.n >= 0
       /\ U64(bits.n) = LimbMul(s.counter, GST_PERF_BITS_PER_BYTE)

====
